---- MODULE Spec2Model ----
(***************************************************************************)
(* A model of the two chart scripts of the repository:                     *)
(*   src/charts_and_grapsh.py  (clean_and_convert_to_numeric,              *)
(*                              create_hybrid_plot, main)                  *)
(*   src/lobbying_chart.py     (the module-level lobbying script)          *)
(*                                                                         *)
(* Text is a sequence of one-character strings, so that the regex          *)
(* replacement, the trimming and the numeric parsing are computed on the   *)
(* characters.  A number is an exact decimal m * 10^(-e); binary rounding  *)
(* of float64 is not modelled.                                             *)
(***************************************************************************)
EXTENDS Integers, Sequences, FiniteSets, TLC

VARIABLES
    \* ---- clean_and_convert_to_numeric, applied to one column
    series,      \* the column handed to the function
    cleaned,     \* the outcome of clean_and_convert_to_numeric(series)
    recleaned,   \* the outcome of cleaning that result once more
    \* ---- create_hybrid_plot, one call
    hdf,             \* the table handed to the function
    hpc,             \* where the call stands
    plot_df,         \* the rows that have both a value and a category
    category_order,  \* the sorted distinct category labels
    hi,              \* categories the annotation loop has passed
    ax,              \* the drawing surface of the call
    \* ---- one run of a script
    script,      \* "A": charts_and_grapsh.py, "B": lobbying_chart.py
    pc,          \* the statement the run stands at
    file,        \* oct10-fh-data.csv: "missing", "unreadable", or "ok"
    csv,         \* the text fields of the CSV file
    df,          \* the table in memory
    chart,       \* the visualization main() is working on, 1..8
    axes,        \* the drawing surface of each visualization
    df_agg,      \* the aggregated table of the lobbying script
    out,         \* the lines printed to standard output
    files,       \* the images written, in the order of writing
    failure,     \* the exception raised in the run, if any
    uncaught     \* whether that exception left the script uncaught

cleanVars == <<series, cleaned, recleaned>>
hybridVars == <<hdf, hpc, plot_df, category_order, hi, ax>>
runVars == <<script, pc, file, csv, df, chart, axes, df_agg, out, files, failure, uncaught>>
vars == <<cleanVars, hybridVars, runVars>>

----------------------------------------------------------------------------
(* Values held by a column *)

NaN == [k |-> "nan", m |-> 0, e |-> 0]
Inf(sign) == [k |-> "inf", m |-> sign, e |-> 0]
Bool(b) == [k |-> "bool", m |-> IF b THEN 1 ELSE 0, e |-> 0]
Str(s) == [k |-> "str", s |-> s]

RECURSIVE Pow10(_)
Pow10(n) == IF n <= 0 THEN 1 ELSE 10 * Pow10(n - 1)

\* the decimal m * 10^(-e) in canonical form: m carries no trailing zero, so
\* 1234.50 is Fin(12345, 1), 12 is Fin(12, 0) and 1000 is Fin(1, -3)
RECURSIVE Fin(_, _)
Fin(m, e) ==
    IF m = 0 THEN [k |-> "fin", m |-> 0, e |-> 0]
    ELSE IF m % 10 = 0 THEN Fin(m \div 10, e - 1)
    ELSE [k |-> "fin", m |-> m, e |-> e]

Abs(n) == IF n < 0 THEN -n ELSE n

RECURSIVE NumDigits(_)
NumDigits(n) == IF Abs(n) < 10 THEN 1 ELSE 1 + NumDigits(Abs(n) \div 10)

----------------------------------------------------------------------------
(* Characters *)

Digits == {"0", "1", "2", "3", "4", "5", "6", "7", "8", "9"}

DigitVal(c) ==
    CASE c = "0" -> 0 [] c = "1" -> 1 [] c = "2" -> 2 [] c = "3" -> 3
      [] c = "4" -> 4 [] c = "5" -> 5 [] c = "6" -> 6 [] c = "7" -> 7
      [] c = "8" -> 8 [] c = "9" -> 9

DigitChar(d) ==
    CASE d = 0 -> "0" [] d = 1 -> "1" [] d = 2 -> "2" [] d = 3 -> "3"
      [] d = 4 -> "4" [] d = 5 -> "5" [] d = 6 -> "6" [] d = 7 -> "7"
      [] d = 8 -> "8" [] d = 9 -> "9"

\* str.strip() with no argument removes whitespace
IsSpace(c) == c \in {" ", "\t", "\n", "\r"}

Lower(c) ==
    CASE c = "I" -> "i" [] c = "N" -> "n" [] c = "F" -> "f" [] c = "A" -> "a"
      [] c = "T" -> "t" [] c = "Y" -> "y" [] c = "E" -> "e"
      [] OTHER -> c

LowerStr(s) == [i \in 1..Len(s) |-> Lower(s[i])]

RECURSIVE LStrip(_)
LStrip(s) == IF s # <<>> /\ IsSpace(Head(s)) THEN LStrip(Tail(s)) ELSE s

RECURSIVE RStrip(_)
RStrip(s) ==
    IF s # <<>> /\ IsSpace(s[Len(s)]) THEN RStrip(SubSeq(s, 1, Len(s) - 1)) ELSE s

Strip(s) == RStrip(LStrip(s))

\* non-negative integer -> its decimal digits
RECURSIVE NatToChars(_)
NatToChars(n) ==
    IF n < 10 THEN <<DigitChar(n)>>
    ELSE Append(NatToChars(n \div 10), DigitChar(n % 10))

\* the value of a run of digits
RECURSIVE DigitsVal(_)
DigitsVal(s) ==
    IF s = <<>> THEN 0 ELSE 10 * DigitsVal(SubSeq(s, 1, Len(s) - 1)) + DigitVal(s[Len(s)])

\* the first index >= i of s that holds no digit (Len(s) + 1 when there is none)
RECURSIVE DigitsEnd(_, _)
DigitsEnd(s, i) ==
    IF i <= Len(s) /\ s[i] \in Digits THEN DigitsEnd(s, i + 1) ELSE i

----------------------------------------------------------------------------
(* pandas.to_numeric on one text cell *)

\* float64 holds magnitudes up to about 1.8e308 and down to about 4.9e-324
MaxDecimalDigits == 309
MinDecimalDigits == -323

ParseFail == [k |-> "fail", m |-> 0, e |-> 0]

\* the value sg * digits * 10^(-e), or the infinity or zero it rounds to
\* when it lies beyond the float64 range
Decimal(sg, digits, e) ==
    LET m == sg * DigitsVal(digits)
    IN  IF m # 0 /\ NumDigits(m) - e > MaxDecimalDigits THEN Inf(sg)
        ELSE IF m # 0 /\ NumDigits(m) - e < MinDecimalDigits THEN Fin(0, 0)
        ELSE Fin(m, e)

\* the exponent part of r, which starts at index j ("e" or "E") and must
\* reach the end of r
ParseExponent(r, sg, digits, fracLen, j) ==
    LET signed == j + 1 <= Len(r) /\ r[j + 1] \in {"+", "-"}
        j1 == IF signed THEN j + 2 ELSE j + 1
        expD == SubSeq(r, j1, Len(r))
    IN  IF expD = <<>> \/ DigitsEnd(r, j1) # Len(r) + 1 THEN ParseFail
        ELSE IF signed /\ r[j + 1] = "-" THEN Decimal(sg, digits, fracLen + DigitsVal(expD))
        ELSE Decimal(sg, digits, fracLen - DigitsVal(expD))

\* r holds digits up to index i1 and, after a point, up to index i2
ParseMantissa(r, sg, i1, i2) ==
    LET intD == SubSeq(r, 1, i1 - 1)
        fracD == SubSeq(r, i1 + 1, i2 - 1)
    IN  IF Len(intD) + Len(fracD) = 0 THEN ParseFail
        ELSE IF i2 = Len(r) + 1 THEN Decimal(sg, intD \o fracD, Len(fracD))
        ELSE IF r[i2] \in {"e", "E"}
             THEN ParseExponent(r, sg, intD \o fracD, Len(fracD), i2)
        ELSE ParseFail

\* the text after the sign
ParseUnsigned(r, sg) ==
    LET i1 == DigitsEnd(r, 1)
    IN  IF LowerStr(r) \in {<<"i", "n", "f">>, <<"i", "n", "f", "i", "n", "i", "t", "y">>}
            THEN Inf(sg)
        ELSE IF LowerStr(r) = <<"n", "a", "n">> THEN NaN
        ELSE IF i1 <= Len(r) /\ r[i1] = "."
             THEN ParseMantissa(r, sg, i1, DigitsEnd(r, i1 + 1))
        ELSE ParseMantissa(r, sg, i1, i1)

\* The float grammar of the parser: surrounding whitespace, an optional sign,
\* then inf / infinity / nan in any case, or digits with an optional fraction
\* and an optional exponent.
ParseText(s0) ==
    LET s == Strip(s0)
    IN  IF s # <<>> /\ s[1] = "-" THEN ParseUnsigned(Tail(s), -1)
        ELSE IF s # <<>> /\ s[1] = "+" THEN ParseUnsigned(Tail(s), 1)
        ELSE ParseUnsigned(s, 1)

\* whether the literal is an integer literal (to_numeric then keeps int64)
IsIntLiteral(s0) ==
    LET s == Strip(s0)
        r == IF s # <<>> /\ s[1] \in {"+", "-"} THEN Tail(s) ELSE s
    IN  r # <<>> /\ \A i \in 1..Len(r) : r[i] \in Digits

----------------------------------------------------------------------------
(* clean_and_convert_to_numeric *)

\* A column (pandas Series): its dtype and its entries.  An object column
\* holds text (Str) and missing cells (NaN); int64 and float64 columns hold
\* numbers; a bool column holds Bool.
Column(dtype, vals) == [dtype |-> dtype, vals |-> vals]

\* the outcome of a call: the column it returns, or the exception it raises
Returned(col) == [raised |-> FALSE, dtype |-> col.dtype, vals |-> col.vals]
Raised == [raised |-> TRUE, dtype |-> "none", vals |-> <<>>]

\* a dtype test that takes bool for non-numeric
IsIntOrFloatDtype(dtype) == dtype \in {"int64", "float64"}

\* pd.api.types.is_numeric_dtype: integer, float and bool dtypes
IsNumericDtype(dtype) == dtype \in {"int64", "float64", "bool"}

\* str() of one entry, as Series.astype(str) applies it
AsTypeStr(dtype, v) ==
    CASE v.k = "str" -> v.s
      [] v.k = "nan" -> <<"n", "a", "n">>
      [] v.k = "bool" -> IF v.m = 1 THEN <<"T", "r", "u", "e">>
                         ELSE <<"F", "a", "l", "s", "e">>
      [] v.k = "inf" -> IF v.m < 0 THEN <<"-", "i", "n", "f">> ELSE <<"i", "n", "f">>
      [] v.k = "fin" ->
            LET sign == IF v.m < 0 THEN <<"-">> ELSE <<>>
                a == Abs(v.m)
            IN  IF v.e <= 0
                THEN sign \o NatToChars(a * Pow10(-v.e))
                     \o (IF dtype = "int64" THEN <<>> ELSE <<".", "0">>)
                ELSE LET frac == NatToChars(a % Pow10(v.e))
                         pad == [i \in 1..(v.e - Len(frac)) |-> "0"]
                     IN  sign \o NatToChars(a \div Pow10(v.e)) \o <<".">> \o pad \o frac

\* a replacement that drops the dollar sign only
RemoveDollarOnly(s) == SelectSeq(s, LAMBDA c : c # "$")

\* .str.replace(r'[$,%]', '', regex=True): every occurrence is removed
RemoveSymbols(s) == SelectSeq(s, LAMBDA c : c \notin {"$", ",", "%"})

\* .replace(['', 'N/A', 'nan'], np.nan): whole-value matches only
NaTexts == {<<>>, <<"N", "/", "A">>, <<"n", "a", "n">>}
ReplaceNa(s) == IF s \in NaTexts THEN NaN ELSE Str(s)

\* pd.to_numeric(values, errors=...) on the cleaned object column
ToNumeric(vals, errors) ==
    LET cell(v) == IF v.k = "str" THEN ParseText(v.s) ELSE v
        parsed == [i \in 1..Len(vals) |-> cell(vals[i])]
        failed == \E i \in 1..Len(vals) : parsed[i].k = "fail"
        allInt == \A i \in 1..Len(vals) : vals[i].k = "str" /\ IsIntLiteral(vals[i].s)
                                           /\ parsed[i].k = "fin"
    IN  IF failed /\ errors # "coerce" THEN Raised
        ELSE Returned(Column(IF allInt THEN "int64" ELSE "float64",
                              [i \in 1..Len(vals) |->
                                  IF parsed[i].k = "fail" THEN NaN ELSE parsed[i]]))

\* the function with errors='coerce' left out of the pd.to_numeric call
clean_without_coerce(col) ==
    IF IsNumericDtype(col.dtype) THEN Returned(col)
    ELSE LET cleanedText == [i \in 1..Len(col.vals) |->
                 ReplaceNa(Strip(RemoveSymbols(AsTypeStr(col.dtype, col.vals[i]))))]
         IN  ToNumeric(cleanedText, "raise")

clean_and_convert_to_numeric(col) ==
    IF IsNumericDtype(col.dtype) THEN Returned(col)
    ELSE LET cleanedText == [i \in 1..Len(col.vals) |->
                 ReplaceNa(Strip(RemoveSymbols(AsTypeStr(col.dtype, col.vals[i]))))]
         IN  ToNumeric(cleanedText, "coerce")

----------------------------------------------------------------------------
(* The columns clean_and_convert_to_numeric is applied to *)

MaxRows == 2      \* longest column
MaxStrLen == 2    \* longest generated text cell

Alphabet == {"$", " ", "7"}

RECURSIVE TextsUpTo(_)
TextsUpTo(n) ==
    IF n = 0 THEN {<<>>}
    ELSE LET shorter == TextsUpTo(n - 1)
         IN  shorter \cup {Append(s, c) : s \in shorter, c \in Alphabet}

\* cells as a price or coordinate column of the CSV may hold them
SampleTexts ==
    { <<"$", "1", ",", "2", "3", "4", ".", "5", "0">>,
      <<"1", "2", "%">>,
      <<" ", "7", " ">>,
      <<>>,
      <<"N", "/", "A">>,
      <<"n", "a", "n">>,
      <<" ", "N", "/", "A", " ">>,
      <<"$", "n", "a", "n">>,
      <<"N", "/", "A", "%">>,
      <<" ", "$", " ">>,
      <<"i", "n", "f">>,
      <<"I", "n", "f", "i", "n", "i", "t", "y">>,
      <<"-", "i", "n", "f">>,
      <<"$", "i", "n", "f">>,
      <<"1", "e", "3">>,
      <<"1", "e", "9", "9", "9">>,
      <<"$", "1", ",", "0", "0", "0">>,
      <<"n", "/", "a">>,
      <<"a", "b", "c">>,
      <<"7", ".", "5", ".">>,
      <<"-", "5">>,
      <<"N", "a", "N">>,
      <<"0", ".", "5">> }

TextCells == {Str(s) : s \in SampleTexts} \cup {NaN}
\* every text over the alphabet, as the only cell of a column
GeneratedCells == {Str(s) : s \in TextsUpTo(MaxStrLen)}
FloatCells == {Fin(1000, 0), Fin(123450, 2), Fin(-5, 1), NaN, Inf(1), Inf(-1)}
IntCells == {Fin(7, 0), Fin(1000, 0), Fin(-5, 0)}
BoolCells == {Bool(TRUE), Bool(FALSE)}

SeqsUpTo(S, n) == UNION {[1..len -> S] : len \in 1..n}

InputColumns ==
    {Column("object", v) : v \in SeqsUpTo(TextCells, MaxRows)}
    \cup {Column("object", <<c>>) : c \in GeneratedCells}
    \cup {Column("float64", v) : v \in SeqsUpTo(FloatCells, MaxRows)}
    \cup {Column("int64", v) : v \in SeqsUpTo(IntCells, MaxRows)}
    \cup {Column("bool", v) : v \in SeqsUpTo(BoolCells, MaxRows)}

\* no call made yet
Pending == [raised |-> FALSE, dtype |-> "pending", vals |-> <<>>]

CleanIdle ==
    /\ series = Column("object", <<>>)
    /\ cleaned = Pending
    /\ recleaned = Pending

\* cleaned = clean_and_convert_to_numeric(series)
Clean ==
    /\ cleaned = Pending
    /\ cleaned' = clean_and_convert_to_numeric(series)
    /\ UNCHANGED <<series, recleaned, hybridVars, runVars>>

\* the function applied to its own result
CleanAgain ==
    /\ cleaned # Pending
    /\ ~cleaned.raised
    /\ recleaned = Pending
    /\ recleaned' = clean_and_convert_to_numeric(Column(cleaned.dtype, cleaned.vals))
    /\ UNCHANGED <<series, cleaned, hybridVars, runVars>>

----------------------------------------------------------------------------
(* Ordering of text and of numbers *)

\* the printable ASCII characters in code-point order, from 32 (space); the
\* grave accent (96) is spelled out
Printable ==
    <<" ", "!", "\"", "#", "$", "%", "&", "'", "(", ")", "*", "+", ",", "-",
      ".", "/", "0", "1", "2", "3", "4", "5", "6", "7", "8", "9", ":", ";",
      "<", "=", ">", "?", "@", "A", "B", "C", "D", "E", "F", "G", "H", "I",
      "J", "K", "L", "M", "N", "O", "P", "Q", "R", "S", "T", "U", "V", "W",
      "X", "Y", "Z", "[", "\\", "]", "^", "_", "grave", "a", "b", "c", "d", "e",
      "f", "g", "h", "i", "j", "k", "l", "m", "n", "o", "p", "q", "r", "s",
      "t", "u", "v", "w", "x", "y", "z", "{", "|", "}", "~">>

Ord(c) == 31 + (CHOOSE i \in 1..Len(Printable) : Printable[i] = c)

\* comparison of Python str values: by code point, a proper prefix first
RECURSIVE LessStr(_, _)
LessStr(a, b) ==
    IF b = <<>> THEN FALSE
    ELSE IF a = <<>> THEN TRUE
    ELSE IF Head(a) # Head(b) THEN Ord(Head(a)) < Ord(Head(b))
    ELSE LessStr(Tail(a), Tail(b))

\* float comparison; every comparison with NaN is false
Lt(a, b) ==
    CASE a.k = "nan" \/ b.k = "nan" -> FALSE
      [] a.k = "inf" -> a.m < 0 /\ ~(b.k = "inf" /\ b.m < 0)
      [] b.k = "inf" -> b.m > 0
      [] OTHER -> LET sc == IF a.e > b.e THEN a.e ELSE b.e
                  IN  a.m * Pow10(sc - a.e) < b.m * Pow10(sc - b.e)

Le(a, b) == a.k # "nan" /\ b.k # "nan" /\ ~Lt(b, a)

\* float addition and halving, as the mean of the two middle values needs them
Add(a, b) ==
    CASE a.k = "nan" \/ b.k = "nan" -> NaN
      [] a.k = "inf" /\ b.k = "inf" -> IF a.m = b.m THEN a ELSE NaN
      [] a.k = "inf" -> a
      [] b.k = "inf" -> b
      [] OTHER -> LET sc == IF a.e > b.e THEN a.e ELSE b.e
                  IN  Fin(a.m * Pow10(sc - a.e) + b.m * Pow10(sc - b.e), sc)

Half(a) == IF a.k = "fin" THEN Fin(a.m * 5, a.e + 1) ELSE a

\* sorted() of text values: ascending, by insertion
RECURSIVE InsertStr(_, _)
InsertStr(s, x) ==
    IF s = <<>> THEN <<x>>
    ELSE IF LessStr(x, Head(s)) THEN <<x>> \o s
    ELSE <<Head(s)>> \o InsertStr(Tail(s), x)

RECURSIVE SortedStr(_)
SortedStr(s) ==
    IF s = <<>> THEN <<>>
    ELSE InsertStr(SortedStr(SubSeq(s, 1, Len(s) - 1)), s[Len(s)])

\* the values of a numeric column in ascending order
RECURSIVE InsertNum(_, _)
InsertNum(s, x) ==
    IF s = <<>> THEN <<x>>
    ELSE IF Lt(x, Head(s)) THEN <<x>> \o s
    ELSE <<Head(s)>> \o InsertNum(Tail(s), x)

RECURSIVE SortedNum(_)
SortedNum(s) ==
    IF s = <<>> THEN <<>>
    ELSE InsertNum(SortedNum(SubSeq(s, 1, Len(s) - 1)), s[Len(s)])

\* Series.unique(): the distinct values in order of first appearance
RECURSIVE Unique(_)
Unique(s) ==
    IF s = <<>> THEN <<>>
    ELSE LET u == Unique(SubSeq(s, 1, Len(s) - 1))
             x == s[Len(s)]
         IN  IF \E i \in 1..Len(u) : u[i] = x THEN u ELSE Append(u, x)

----------------------------------------------------------------------------
(* Currency labels: f'${v:,.0f}' *)

\* digits grouped in threes from the right
RECURSIVE Grouped(_)
Grouped(n) ==
    IF n < 1000 THEN NatToChars(n)
    ELSE LET low == NatToChars(n % 1000)
             pad == [i \in 1..(3 - Len(low)) |-> "0"]
         IN  Grouped(n \div 1000) \o <<",">> \o pad \o low

\* format(v, ',.0f'): rounded to an integer, ties to the even neighbour
RoundHalfEven(a, e) ==
    IF e <= 0 THEN a * Pow10(-e)
    ELSE LET p == Pow10(e)
             q == a \div p
             r == a % p
         IN  IF 2 * r > p THEN q + 1
             ELSE IF 2 * r < p THEN q
             ELSE IF q % 2 = 0 THEN q ELSE q + 1

FormatCurrency(v) ==
    <<"$">> \o
    (CASE v.k = "nan" -> <<"n", "a", "n">>
       [] v.k = "inf" -> IF v.m < 0 THEN <<"-", "i", "n", "f">> ELSE <<"i", "n", "f">>
       [] v.k = "fin" -> (IF v.m < 0 THEN <<"-">> ELSE <<>>)
                         \o Grouped(RoundHalfEven(Abs(v.m), v.e)))

----------------------------------------------------------------------------
(* create_hybrid_plot *)

\* A table (DataFrame): its column names and its rows, each row a function
\* from the column names to cells.

Independent == <<"I", "n", "d", "e", "p", "e", "n", "d", "e", "n", "t">>
FPGBeersStory ==
    <<"F", "P", "G", " ", "B", "e", "e", "r", "s", " ", "&", " ", "S", "t", "o", "r", "y">>
MedianPrefix == <<"M", "e", "d", "i", "a", "n", ":", " ">>

\* df.dropna(subset=...) on columns the table has
DropNa(tbl, subset) ==
    SelectSeq(tbl.rows, LAMBDA r : \A c \in subset : r[c].k # "nan")

Labels(pdf, category_col) == [n \in 1..Len(pdf) |-> pdf[n][category_col].s]

\* the distinct labels left in order of first appearance
CategoryOrderUnsorted(pdf, category_col) == Unique(Labels(pdf, category_col))

\* sorted(plot_df[category_col].unique())
CategoryOrder(pdf, category_col) == SortedStr(Unique(Labels(pdf, category_col)))

\* plot_df[plot_df[category_col] == cat][value_col]
CatData(pdf, value_col, category_col, cat) ==
    LET sel == SelectSeq(pdf, LAMBDA r : r[category_col].s = cat)
    IN  [n \in 1..Len(sel) |-> sel[n][value_col]]

NUnique(vals) == Cardinality({vals[n] : n \in 1..Len(vals)})

\* Series.median(): the middle value, or the mean of the two middle values
Median(vals) ==
    LET s == SortedNum(vals)
        n == Len(s)
    IN  IF n % 2 = 1 THEN s[(n + 1) \div 2]
        ELSE Half(Add(s[n \div 2], s[n \div 2 + 1]))

Min(vals) == SortedNum(vals)[1]
Max(vals) == SortedNum(vals)[Len(vals)]

Annotation(i, y, text, color, va) ==
    [x |-> i, y |-> y, text |-> text, color |-> color, va |-> va]

\* the annotation pass with the single-value labelling given to every label
AnnotateCategoryAnyLabel(pdf, value_col, category_col, i, cat) ==
    LET cat_data == CatData(pdf, value_col, category_col, cat)
    IN  IF cat_data = <<>> THEN [ticks |-> <<>>, anns |-> <<>>]
        ELSE IF NUnique(cat_data) = 1
        THEN [ticks |-> <<>>,
              anns |-> <<Annotation(i, cat_data[1], FormatCurrency(cat_data[1]),
                                    "black", "bottom")>>]
        ELSE LET median_val == Median(cat_data)
                 min_val == Min(cat_data)
                 max_val == Max(cat_data)
             IN  [ticks |-> <<[x |-> i, y |-> median_val]>>,
                  anns |-> <<Annotation(i, median_val,
                                        MedianPrefix \o FormatCurrency(median_val),
                                        "black", "bottom"),
                             Annotation(i, max_val, FormatCurrency(max_val),
                                        "firebrick", "bottom"),
                             Annotation(i, min_val, FormatCurrency(min_val),
                                        "darkgreen", "top")>>]

\* one pass of the annotation loop: what it adds for category cat at position i
AnnotateCategory(pdf, value_col, category_col, i, cat) ==
    LET cat_data == CatData(pdf, value_col, category_col, cat)
    IN  IF cat_data = <<>> THEN [ticks |-> <<>>, anns |-> <<>>]
        ELSE IF cat = FPGBeersStory /\ NUnique(cat_data) = 1
        THEN [ticks |-> <<>>,
              anns |-> <<Annotation(i, cat_data[1], FormatCurrency(cat_data[1]),
                                    "black", "bottom")>>]
        ELSE LET median_val == Median(cat_data)
                 min_val == Min(cat_data)
                 max_val == Max(cat_data)
             IN  [ticks |-> <<[x |-> i, y |-> median_val]>>,
                  anns |-> <<Annotation(i, median_val,
                                        MedianPrefix \o FormatCurrency(median_val),
                                        "black", "bottom"),
                             Annotation(i, max_val, FormatCurrency(max_val),
                                        "firebrick", "bottom"),
                             Annotation(i, min_val, FormatCurrency(min_val),
                                        "darkgreen", "top")>>]

\* the drawing surface
NoPlot == [drawn |-> FALSE, order |-> <<>>, data |-> <<>>]
Plot(order, data) == [drawn |-> TRUE, order |-> order, data |-> data]
EmptyAx ==
    [text |-> FALSE, violin |-> NoPlot, swarm |-> NoPlot, ticks |-> <<>>,
     anns |-> <<>>, titled |-> FALSE]

\* the annotation loop over the first n categories of the order
RECURSIVE AnnotateUpTo(_, _, _, _, _)
AnnotateUpTo(pdf, value_col, category_col, order, n) ==
    IF n = 0 THEN [ticks |-> <<>>, anns |-> <<>>]
    ELSE LET before == AnnotateUpTo(pdf, value_col, category_col, order, n - 1)
             this == AnnotateCategory(pdf, value_col, category_col, n - 1, order[n])
         IN  [ticks |-> before.ticks \o this.ticks, anns |-> before.anns \o this.anns]

\* the violin of the 'Independent' rows, drawn when there are any
Violin(pdf, category_col, order) ==
    LET independent_df == SelectSeq(pdf, LAMBDA r : r[category_col].s = Independent)
    IN  IF independent_df # <<>> THEN Plot(order, independent_df) ELSE NoPlot

\* the whole call, on a table that has both columns
create_hybrid_plot(tbl, value_col, category_col) ==
    LET pdf == DropNa(tbl, {value_col, category_col})
        order == CategoryOrder(pdf, category_col)
        notes == AnnotateUpTo(pdf, value_col, category_col, order,
                              Len(order))
    IN  IF pdf = <<>> THEN [EmptyAx EXCEPT !.text = TRUE]
        ELSE [text |-> FALSE,
              violin |-> Violin(pdf, category_col, order),
              swarm |-> Plot(order, pdf),
              ticks |-> notes.ticks,
              anns |-> notes.anns,
              titled |-> TRUE]

----------------------------------------------------------------------------
(* One call of create_hybrid_plot, statement by statement *)

MaxHRows == 3    \* most rows of the table handed to create_hybrid_plot

ValueCol == "BasicServicesFee_cleaned"
CategoryCol == "Ownership"

HCategories == {NaN, Str(Independent), Str(FPGBeersStory), Str(<<"S", "C", "I">>)}

\* rows: a finite price under every label, a missing price, a missing label,
\* and the infinite prices under the two labels the annotations tell apart
HRows ==
    {(ValueCol :> v) @@ (CategoryCol :> c) :
        v \in {Fin(1000, 0), Fin(2501, 0)}, c \in HCategories \ {NaN}}
    \cup {(ValueCol :> v) @@ (CategoryCol :> NaN) : v \in {NaN, Fin(1000, 0)}}
    \cup {(ValueCol :> NaN) @@ (CategoryCol :> Str(Independent))}
    \cup {(ValueCol :> v) @@ (CategoryCol :> c) :
            v \in {Inf(1), Inf(-1)}, c \in {Str(Independent), Str(FPGBeersStory)}}

HTables ==
    {[columns |-> {ValueCol, CategoryCol}, rows |-> r] :
        r \in UNION {[1..len -> HRows] : len \in 0..MaxHRows}}

NoTable == [columns |-> {}, rows |-> <<>>]

HybridIdle ==
    /\ hdf = NoTable
    /\ hpc = "idle"
    /\ plot_df = <<>>
    /\ category_order = <<>>
    /\ hi = 0
    /\ ax = EmptyAx

\* lines 35-44: the filter, the placeholder return, the category order
HFilter ==
    /\ hpc = "call"
    /\ LET rows == DropNa(hdf, {ValueCol, CategoryCol})
       IN  /\ plot_df' = rows
           /\ IF rows = <<>>
              THEN /\ ax' = [ax EXCEPT !.text = TRUE]
                   /\ hpc' = "returned"
                   /\ UNCHANGED category_order
              ELSE /\ category_order' = CategoryOrder(rows, CategoryCol)
                   /\ hpc' = "violin"
                   /\ UNCHANGED ax
    /\ UNCHANGED <<hdf, hi, cleanVars, runVars>>

\* lines 46-49: the violin of the 'Independent' rows
HViolin ==
    /\ hpc = "violin"
    /\ ax' = [ax EXCEPT !.violin = Violin(plot_df, CategoryCol, category_order)]
    /\ hpc' = "swarm"
    /\ UNCHANGED <<hdf, plot_df, category_order, hi, cleanVars, runVars>>

\* lines 51-53: the points of every category
HSwarm ==
    /\ hpc = "swarm"
    /\ ax' = [ax EXCEPT !.swarm = Plot(category_order, plot_df)]
    /\ hpc' = "annotate"
    /\ hi' = 0
    /\ UNCHANGED <<hdf, plot_df, category_order, cleanVars, runVars>>

\* lines 56-86: one pass of the annotation loop
HAnnotate ==
    /\ hpc = "annotate"
    /\ hi < Len(category_order)
    /\ LET this == AnnotateCategory(plot_df, ValueCol, CategoryCol, hi,
                                    category_order[hi + 1])
       IN  ax' = [ax EXCEPT !.ticks = @ \o this.ticks, !.anns = @ \o this.anns]
    /\ hi' = hi + 1
    /\ UNCHANGED <<hdf, hpc, plot_df, category_order, cleanVars, runVars>>

\* lines 88-90: title and axis labels
HLabels ==
    /\ hpc = "annotate"
    /\ hi = Len(category_order)
    /\ ax' = [ax EXCEPT !.titled = TRUE]
    /\ hpc' = "returned"
    /\ UNCHANGED <<hdf, plot_df, category_order, hi, cleanVars, runVars>>

----------------------------------------------------------------------------
(* main() of charts_and_grapsh.py: the data *)

MaxCsvRows == 1    \* most data rows of the CSV file

cols_to_clean ==
    <<"Latitude", "Longitude", "BasicServicesFee", "DirectCremationLowestPrice",
      "DirectCremation_Pct_Change", "ImmediateBurialLowestPrice">>

CsvColumns == {cols_to_clean[n] : n \in 1..Len(cols_to_clean)} \cup {"Ownership"}

CleanedName(col) ==
    CASE col = "Latitude" -> "Latitude_cleaned"
      [] col = "Longitude" -> "Longitude_cleaned"
      [] col = "BasicServicesFee" -> "BasicServicesFee_cleaned"
      [] col = "DirectCremationLowestPrice" -> "DirectCremationLowestPrice_cleaned"
      [] col = "DirectCremation_Pct_Change" -> "DirectCremation_Pct_Change_cleaned"
      [] col = "ImmediateBurialLowestPrice" -> "ImmediateBurialLowestPrice_cleaned"

\* a field of the file: one with data, or one without
CsvField(col, filled) ==
    IF ~filled THEN (IF col \in {"BasicServicesFee", "DirectCremationLowestPrice",
                                 "ImmediateBurialLowestPrice"}
                     THEN <<"N", "/", "A">> ELSE <<>>)
    ELSE CASE col = "Latitude" -> <<"4", "2", ".", "3", "6">>
           [] col = "Longitude" -> <<"-", "7", "1", ".", "0", "6">>
           [] col = "BasicServicesFee" -> <<"$", "1", ",", "0", "0", "0">>
           [] col = "DirectCremationLowestPrice" -> <<"$", "2", ",", "5", "0", "1">>
           [] col = "DirectCremation_Pct_Change" -> <<"1", "2", "%">>
           [] col = "ImmediateBurialLowestPrice" -> <<"$", "1", ",", "2", "3", "4", ".", "5", "0">>
           [] col = "Ownership" -> <<"I", "n", "d", "e", "p", "e", "n", "d", "e", "n", "t", " ">>

\* a data row: every field filled, one field empty, or every field empty
RowFills(cols) ==
    {[c \in cols |-> c # e] : e \in cols}
    \cup {[c \in cols |-> TRUE], [c \in cols |-> FALSE]}

\* the files the run may find: any of the columns may be absent
CsvFilesWith(cols) ==
    {[columns |-> cols,
      rows |-> [n \in 1..Len(filled) |-> [c \in cols |-> CsvField(c, filled[n][c])]]] :
        filled \in UNION {[1..len -> RowFills(cols)] : len \in 0..MaxCsvRows}}

CsvFiles == UNION {CsvFilesWith(cols) : cols \in SUBSET CsvColumns}

\* fields pd.read_csv reads as missing
CsvNaTexts ==
    {<<>>, <<"N", "/", "A">>, <<"n", "a", "n">>, <<"N", "a", "N">>, <<"N", "A">>,
     <<"n", "/", "a">>, <<"n", "u", "l", "l">>}

\* pd.read_csv: a column whose fields are all numbers (or missing) becomes a
\* numeric column, any other column an object column of text and NaN
ReadCsvColumn(fields) ==
    LET cell(s) == IF s \in CsvNaTexts THEN NaN ELSE ParseText(s)
        numeric == \A n \in 1..Len(fields) : cell(fields[n]).k # "fail"
        allInt == \A n \in 1..Len(fields) : IsIntLiteral(fields[n])
    IN  IF fields = <<>> THEN Column("object", <<>>)
        ELSE IF numeric
        THEN Column(IF allInt THEN "int64" ELSE "float64",
                    [n \in 1..Len(fields) |-> cell(fields[n])])
        ELSE Column("object",
                    [n \in 1..Len(fields) |->
                        IF fields[n] \in CsvNaTexts THEN NaN ELSE Str(fields[n])])

Table(columns, dtype, rows) == [columns |-> columns, dtype |-> dtype, rows |-> rows]

SeriesOf(t, col) == Column(t.dtype[col], [n \in 1..Len(t.rows) |-> t.rows[n][col]])

ReadCsv(f) ==
    LET read == [c \in f.columns |->
                    ReadCsvColumn([n \in 1..Len(f.rows) |-> f.rows[n][c]])]
    IN  Table(f.columns, [c \in f.columns |-> read[c].dtype],
              [n \in 1..Len(f.rows) |-> [c \in f.columns |-> read[c].vals[n]]])

\* lines 104-105: df[col].str.strip() on every object column
StripObjectColumns(t) ==
    LET strip(c, v) == IF t.dtype[c] = "object" /\ v.k = "str" THEN Str(Strip(v.s)) ELSE v
    IN  [t EXCEPT !.rows = [n \in 1..Len(t.rows) |->
                               [c \in t.columns |-> strip(c, t.rows[n][c])]]]

\* df[name] = column
WithColumn(t, name, col) ==
    Table(t.columns \cup {name},
          [c \in t.columns \cup {name} |-> IF c = name THEN col.dtype ELSE t.dtype[c]],
          [n \in 1..Len(t.rows) |->
              [c \in t.columns \cup {name} |->
                  IF c = name THEN col.vals[n] ELSE t.rows[n][c]]])

Warning(col) == [line |-> "Warning: Column not found in the CSV file.", arg |-> {col}]

\* lines 113-117: the cleaning loop over the first n columns of cols_to_clean
RECURSIVE CleanColumns(_, _)
CleanColumns(t, n) ==
    IF n = 0 THEN [raised |-> FALSE, df |-> t, warnings |-> <<>>]
    ELSE LET before == CleanColumns(t, n - 1)
             col == cols_to_clean[n]
             res == clean_and_convert_to_numeric(SeriesOf(before.df, col))
         IN  IF before.raised THEN before
             ELSE IF col \notin before.df.columns
             THEN [before EXCEPT !.warnings = Append(@, Warning(col))]
             ELSE IF res.raised THEN [before EXCEPT !.raised = TRUE]
             ELSE [before EXCEPT
                      !.df = WithColumn(@, CleanedName(col), Column(res.dtype, res.vals))]

----------------------------------------------------------------------------
(* main() of charts_and_grapsh.py: the eight visualizations *)

NumCharts == 8

ChartFile(n) ==
    CASE n = 1 -> "geographic_distribution.png"
      [] n = 2 -> "cremation_price_distribution.png"
      [] n = 3 -> "immediate_burial_price_distribution.png"
      [] n = 4 -> "basic_services_fee_hybrid_plot.png"
      [] n = 5 -> "direct_cremation_hybrid_plot.png"
      [] n = 6 -> "immediate_burial_hybrid_plot.png"
      [] n = 7 -> "cremation_percentage_change.png"
      [] n = 8 -> "fee_vs_cremation_price.png"

\* the columns whose missing values the visualization filters on
ChartSubset(n) ==
    CASE n = 1 -> {"Latitude_cleaned", "Longitude_cleaned", "Ownership"}
      [] n = 2 -> {"DirectCremationLowestPrice_cleaned"}
      [] n = 3 -> {"ImmediateBurialLowestPrice_cleaned"}
      [] n = 4 -> {"BasicServicesFee_cleaned", "Ownership"}
      [] n = 5 -> {"DirectCremationLowestPrice_cleaned", "Ownership"}
      [] n = 6 -> {"ImmediateBurialLowestPrice_cleaned", "Ownership"}
      [] n = 7 -> {"DirectCremation_Pct_Change_cleaned"}
      [] n = 8 -> {"BasicServicesFee_cleaned", "DirectCremationLowestPrice_cleaned",
                   "Ownership"}

HybridValueCol(n) ==
    CASE n = 4 -> "BasicServicesFee_cleaned"
      [] n = 5 -> "DirectCremationLowestPrice_cleaned"
      [] n = 6 -> "ImmediateBurialLowestPrice_cleaned"

\* the seaborn calls of the plain visualizations
ChartPlots(n) ==
    CASE n = 1 -> <<"scatterplot">>
      [] n \in {2, 3, 7} -> <<"histplot">>
      [] n = 8 -> <<"scatterplot", "regplot">>

NoAx == [text |-> FALSE, plots |-> <<>>, data |-> <<>>, titled |-> FALSE]

\* the visualizations without the else branch of the plain charts
RenderChartNoPlaceholder(t, n) ==
    IF n \in {4, 5, 6} THEN create_hybrid_plot(t, HybridValueCol(n), "Ownership")
    ELSE [text |-> FALSE, plots |-> ChartPlots(n), data |-> DropNa(t, ChartSubset(n)),
          titled |-> TRUE]

\* what visualization n puts on its surface when every library call succeeds
RenderChart(t, n) ==
    IF n \in {4, 5, 6} THEN create_hybrid_plot(t, HybridValueCol(n), "Ownership")
    ELSE LET rows == DropNa(t, ChartSubset(n))
         IN  IF rows # <<>>
             THEN [text |-> FALSE, plots |-> ChartPlots(n), data |-> rows, titled |-> TRUE]
             ELSE [NoAx EXCEPT !.text = TRUE]

----------------------------------------------------------------------------
(* Exceptions and the messages of the guard in main() *)

NoExc == [type |-> "none", desc |-> {}]
Exc(type, desc) == [type |-> type, desc |-> desc]

NotFoundMsg ==
    [line |-> "Error: 'oct10-fh-data.csv' not found. Please ensure it's in the same directory.",
     arg |-> {}]
UnexpectedMsg(e) == [line |-> "An unexpected error occurred: ", arg |-> e.desc]
SavedMsg ==
    [line |-> "Plots have been saved to the script's directory as PNG files.", arg |-> {}]

\* a guard with the generic clause only
HandlerAlwaysGeneric(e) == UnexpectedMsg(e)

\* lines 225-228: the except clauses
Handler(e) == IF e.type = "FileNotFoundError" THEN NotFoundMsg ELSE UnexpectedMsg(e)

\* a guard after which the run goes on to its last statement
RaiseInMainAndGoOn(e) ==
    /\ failure' = e
    /\ out' = Append(out, Handler(e))
    /\ pc' = "print"
    /\ UNCHANGED uncaught

\* an exception raised inside the try block of main(): the matching except
\* clause prints its message and main() returns
RaiseInMain(e) ==
    /\ failure' = e
    /\ out' = Append(out, Handler(e))
    /\ pc' = "end"
    /\ UNCHANGED uncaught

\* what the library and the file system may answer to a call
DrawFailures == {Exc("ValueError", {"the plotting library rejected the data"})}
SaveFailures ==
    {Exc("PermissionError", {"[Errno 13] Permission denied"}),
     Exc("FileNotFoundError", {"[Errno 2] No such file or directory"})}

----------------------------------------------------------------------------
(* main() of charts_and_grapsh.py, statement by statement *)

\* lines 98-101: the theme, then pd.read_csv('oct10-fh-data.csv')
ALoad ==
    /\ script = "A"
    /\ pc = "load"
    /\ CASE file = "missing" ->
              /\ RaiseInMain(Exc("FileNotFoundError",
                                 {"[Errno 2] No such file or directory: 'oct10-fh-data.csv'"}))
              /\ UNCHANGED df
         [] file = "unreadable" ->
              /\ RaiseInMain(Exc("EmptyDataError", {"No columns to parse from file"}))
              /\ UNCHANGED df
         [] file = "ok" ->
              /\ df' = ReadCsv(csv)
              /\ pc' = "strip"
              /\ UNCHANGED <<out, failure, uncaught>>
    /\ UNCHANGED <<script, file, csv, chart, axes, df_agg, files, cleanVars, hybridVars>>

\* lines 104-105
AStrip ==
    /\ script = "A"
    /\ pc = "strip"
    /\ df' = StripObjectColumns(df)
    /\ pc' = "clean"
    /\ UNCHANGED <<script, file, csv, chart, axes, df_agg, out, files, failure, uncaught,
                   cleanVars, hybridVars>>

\* lines 108-117: the cleaning loop, with its warnings
AClean ==
    /\ script = "A"
    /\ pc = "clean"
    /\ LET res == CleanColumns(df, Len(cols_to_clean))
       IN  IF res.raised
           THEN /\ RaiseInMain(Exc("ValueError", {"Unable to parse string"}))
                /\ UNCHANGED <<df, chart>>
           ELSE /\ df' = res.df
                /\ out' = out \o res.warnings
                /\ pc' = "render"
                /\ chart' = 1
                /\ UNCHANGED <<failure, uncaught>>
    /\ UNCHANGED <<script, file, csv, axes, df_agg, files, cleanVars, hybridVars>>

\* plt.subplots, the filter, the drawing or the placeholder, tight_layout and
\* despine of visualization `chart` (lines 122-133 for the first)
ARender ==
    /\ script = "A"
    /\ pc = "render"
    /\ LET absent == ChartSubset(chart) \ df.columns
       IN  IF absent # {}
           THEN /\ RaiseInMain(Exc("KeyError", absent))
                /\ UNCHANGED axes
           ELSE \/ /\ axes' = [axes EXCEPT ![chart] = RenderChart(df, chart)]
                   /\ pc' = "save"
                   /\ UNCHANGED <<out, failure, uncaught>>
                \/ /\ DropNa(df, ChartSubset(chart)) # <<>>
                   /\ \E e \in DrawFailures : RaiseInMain(e)
                   /\ UNCHANGED axes
    /\ UNCHANGED <<script, file, csv, df, chart, df_agg, files, cleanVars, hybridVars>>

\* fig.savefig(...) of visualization `chart` (line 134 for the first)
ASave ==
    /\ script = "A"
    /\ pc = "save"
    /\ \/ /\ files' = Append(files, ChartFile(chart))
          /\ IF chart = NumCharts
             THEN pc' = "print" /\ UNCHANGED chart
             ELSE pc' = "render" /\ chart' = chart + 1
          /\ UNCHANGED <<out, failure, uncaught>>
       \/ /\ \E e \in SaveFailures : RaiseInMain(e)
          /\ UNCHANGED <<files, chart>>
    /\ UNCHANGED <<script, file, csv, df, axes, df_agg, cleanVars, hybridVars>>

\* line 223
APrint ==
    /\ script = "A"
    /\ pc = "print"
    /\ out' = Append(out, SavedMsg)
    /\ pc' = "end"
    /\ UNCHANGED <<script, file, csv, df, chart, axes, df_agg, files, failure, uncaught,
                   cleanVars, hybridVars>>

----------------------------------------------------------------------------
(* lobbying_chart.py *)

\* lines 12-24: the fields of the embedded text
data ==
    [columns |->
      {"Year",
       "Yearth Funeral Group Inc.",
       "Massachusetts Funeral Directors Association",
       "Affiliated Family Funeral Service Inc.",
       "Massachusetts Cemetery Association",
       "Proprietors of the Cemetery of Mount Auburn",
       "Total"},
     rows |-> <<
      ("Year" :> <<"2", "0", "2", "5", "(", "*", "J", "a", "n", "-", "J", "u", "n", "e", ")">>) @@ ("Yearth Funeral Group Inc." :> <<"2", "2", "9", "1", "1">>)
        @@ ("Massachusetts Funeral Directors Association" :> <<"4", "1", "0", "0", "0">>) @@ ("Affiliated Family Funeral Service Inc." :> <<"3", "7", "5", "0">>)
        @@ ("Massachusetts Cemetery Association" :> <<"9", "0", "0", "0">>) @@ ("Proprietors of the Cemetery of Mount Auburn" :> <<"3", "6", "6", "1", "0">>)
        @@ ("Total" :> <<"1", "1", "3", "2", "7", "1">>),
      ("Year" :> <<"2", "0", "2", "4">>) @@ ("Yearth Funeral Group Inc." :> <<"0">>)
        @@ ("Massachusetts Funeral Directors Association" :> <<"9", "2", "1", "6", "6">>) @@ ("Affiliated Family Funeral Service Inc." :> <<"0">>)
        @@ ("Massachusetts Cemetery Association" :> <<"1", "8", "0", "0", "0">>) @@ ("Proprietors of the Cemetery of Mount Auburn" :> <<"6", "0", "0", "0", "0">>)
        @@ ("Total" :> <<"1", "7", "2", "1", "9", "0">>),
      ("Year" :> <<"2", "0", "2", "3">>) @@ ("Yearth Funeral Group Inc." :> <<"0">>)
        @@ ("Massachusetts Funeral Directors Association" :> <<"5", "8", "0", "0", "0">>) @@ ("Affiliated Family Funeral Service Inc." :> <<"0">>)
        @@ ("Massachusetts Cemetery Association" :> <<"1", "6", "0", "0", "0">>) @@ ("Proprietors of the Cemetery of Mount Auburn" :> <<"6", "0", "9", "1", "0">>)
        @@ ("Total" :> <<"1", "3", "6", "9", "3", "3">>),
      ("Year" :> <<"2", "0", "2", "2">>) @@ ("Yearth Funeral Group Inc." :> <<"0">>)
        @@ ("Massachusetts Funeral Directors Association" :> <<"2", "8", "0", "0", "0">>) @@ ("Affiliated Family Funeral Service Inc." :> <<"0">>)
        @@ ("Massachusetts Cemetery Association" :> <<"1", "2", "0", "0", "0">>) @@ ("Proprietors of the Cemetery of Mount Auburn" :> <<"5", "4", "7", "5", "0">>)
        @@ ("Total" :> <<"9", "6", "7", "7", "2">>),
      ("Year" :> <<"2", "0", "2", "1">>) @@ ("Yearth Funeral Group Inc." :> <<"0">>)
        @@ ("Massachusetts Funeral Directors Association" :> <<"2", "8", "6", "7", "8">>) @@ ("Affiliated Family Funeral Service Inc." :> <<"0">>)
        @@ ("Massachusetts Cemetery Association" :> <<"1", "2", "0", "0", "0">>) @@ ("Proprietors of the Cemetery of Mount Auburn" :> <<"0">>)
        @@ ("Total" :> <<"4", "2", "6", "9", "9">>),
      ("Year" :> <<"2", "0", "2", "0">>) @@ ("Yearth Funeral Group Inc." :> <<"0">>)
        @@ ("Massachusetts Funeral Directors Association" :> <<"1", "4", "4", "2", "8">>) @@ ("Affiliated Family Funeral Service Inc." :> <<"0">>)
        @@ ("Massachusetts Cemetery Association" :> <<"1", "2", "0", "0", "0">>) @@ ("Proprietors of the Cemetery of Mount Auburn" :> <<"0">>)
        @@ ("Total" :> <<"2", "8", "4", "4", "8">>),
      ("Year" :> <<"2", "0", "1", "9">>) @@ ("Yearth Funeral Group Inc." :> <<"0">>)
        @@ ("Massachusetts Funeral Directors Association" :> <<"1", "4", "0", "0", "0">>) @@ ("Affiliated Family Funeral Service Inc." :> <<"0">>)
        @@ ("Massachusetts Cemetery Association" :> <<"1", "2", "0", "0", "0">>) @@ ("Proprietors of the Cemetery of Mount Auburn" :> <<"0">>)
        @@ ("Total" :> <<"2", "8", "0", "1", "9">>),
      ("Year" :> <<"2", "0", "1", "8">>) @@ ("Yearth Funeral Group Inc." :> <<"0">>)
        @@ ("Massachusetts Funeral Directors Association" :> <<"1", "0", "0", "0", "0">>) @@ ("Affiliated Family Funeral Service Inc." :> <<"0">>)
        @@ ("Massachusetts Cemetery Association" :> <<"1", "2", "0", "0", "0">>) @@ ("Proprietors of the Cemetery of Mount Auburn" :> <<"0">>)
        @@ ("Total" :> <<"2", "4", "0", "1", "8">>),
      ("Year" :> <<"2", "0", "1", "7">>) @@ ("Yearth Funeral Group Inc." :> <<"0">>)
        @@ ("Massachusetts Funeral Directors Association" :> <<"1", "4", "0", "0", "0">>) @@ ("Affiliated Family Funeral Service Inc." :> <<"0">>)
        @@ ("Massachusetts Cemetery Association" :> <<"1", "2", "0", "0", "0">>) @@ ("Proprietors of the Cemetery of Mount Auburn" :> <<"0">>)
        @@ ("Total" :> <<"2", "8", "0", "1", "7">>),
      ("Year" :> <<"2", "0", "1", "6">>) @@ ("Yearth Funeral Group Inc." :> <<"0">>)
        @@ ("Massachusetts Funeral Directors Association" :> <<"1", "4", "0", "0", "0">>) @@ ("Affiliated Family Funeral Service Inc." :> <<"0">>)
        @@ ("Massachusetts Cemetery Association" :> <<"1", "2", "0", "0", "0">>) @@ ("Proprietors of the Cemetery of Mount Auburn" :> <<"0">>)
        @@ ("Total" :> <<"2", "8", "0", "1", "6">>),
      ("Year" :> <<"2", "0", "1", "5">>) @@ ("Yearth Funeral Group Inc." :> <<"0">>)
        @@ ("Massachusetts Funeral Directors Association" :> <<"1", "4", "0", "0", "0">>) @@ ("Affiliated Family Funeral Service Inc." :> <<"0">>)
        @@ ("Massachusetts Cemetery Association" :> <<"1", "2", "0", "0", "0">>) @@ ("Proprietors of the Cemetery of Mount Auburn" :> <<"0">>)
        @@ ("Total" :> <<"2", "8", "0", "1", "5">>) >>]

funeral_groups ==
    <<"Yearth Funeral Group Inc.", "Massachusetts Funeral Directors Association",
      "Affiliated Family Funeral Service Inc.">>
cemetery_groups ==
    <<"Massachusetts Cemetery Association",
      "Proprietors of the Cemetery of Mount Auburn">>

FirstYear == 2017
LastYear == 2024

\* .str.extract(r'(\d{4})'): the first four consecutive digits, NaN without any
ExtractYear(s) ==
    LET starts == {n \in 1..(Len(s) - 3) : \A j \in n..(n + 3) : s[j] \in Digits}
    IN  IF starts = {} THEN NaN
        ELSE LET first == CHOOSE n \in starts : \A o \in starts : n <= o
             IN  Str(SubSeq(s, first, first + 3))

\* line 33, applied to a table whose year fields all hold four digits
YearToInt(t) ==
    WithColumn(t, "Year",
               Column("int64",
                      [n \in 1..Len(t.rows) |->
                          LET y == ExtractYear(AsTypeStr(t.dtype["Year"], t.rows[n]["Year"]))
                          IN  IF y.k = "str" THEN Fin(DigitsVal(y.s), 0) ELSE y]))

\* a filter with the upper limit only
FilterYearsNoLowerLimit(t) ==
    [t EXCEPT !.rows = SelectSeq(@, LAMBDA r : Le(r["Year"], Fin(LastYear, 0)))]

\* line 36
FilterYears(t) ==
    [t EXCEPT !.rows = SelectSeq(@, LAMBDA r : Le(Fin(FirstYear, 0), r["Year"])
                                               /\ Le(r["Year"], Fin(LastYear, 0)))]

\* df[group].sum(axis=1) of one row
RECURSIVE RowSum(_, _, _)
RowSum(r, group, n) ==
    IF n = 0 THEN Fin(0, 0) ELSE Add(RowSum(r, group, n - 1), r[group[n]])

\* lines 50-51
WithGroupSums(t) ==
    LET sums(group) == Column("int64", [n \in 1..Len(t.rows) |->
                                            RowSum(t.rows[n], group, Len(group))])
    IN  WithColumn(WithColumn(t, "Funeral Group Spending", sums(funeral_groups)),
                   "Cemetery Group Spending", sums(cemetery_groups))

RECURSIVE InsertByYear(_, _)
InsertByYear(s, r) ==
    IF s = <<>> THEN <<r>>
    ELSE IF Lt(r["Year"], Head(s)["Year"]) THEN <<r>> \o s
    ELSE <<Head(s)>> \o InsertByYear(Tail(s), r)

RECURSIVE SortByYear(_)
SortByYear(s) ==
    IF s = <<>> THEN <<>>
    ELSE InsertByYear(SortByYear(SubSeq(s, 1, Len(s) - 1)), s[Len(s)])

\* lines 54-55: the three columns kept, indexed and sorted by year
Aggregate(t) ==
    LET keep == {"Year", "Funeral Group Spending", "Cemetery Group Spending"}
    IN  SortByYear([n \in 1..Len(t.rows) |-> [c \in keep |-> t.rows[n][c]]])

ChartSavedMsg ==
    [line |-> "The line chart has been generated and saved as 'spending_over_time_portrait.png'.",
     arg |-> {}]

\* the script has no try statement: an exception ends it with a traceback
RaiseInScript(e) ==
    /\ failure' = e
    /\ uncaught' = TRUE
    /\ pc' = "end"
    /\ UNCHANGED out

\* line 27
BLoad ==
    /\ script = "B"
    /\ pc = "load"
    /\ df' = ReadCsv(csv)
    /\ pc' = "year"
    /\ UNCHANGED <<script, file, csv, chart, axes, df_agg, out, files, failure, uncaught,
                   cleanVars, hybridVars>>

\* line 33
BYear ==
    /\ script = "B"
    /\ pc = "year"
    /\ IF \E n \in 1..Len(df.rows) :
            ExtractYear(AsTypeStr(df.dtype["Year"], df.rows[n]["Year"])) = NaN
       THEN /\ RaiseInScript(Exc("IntCastingNaNError",
                                 {"Cannot convert non-finite values (NA or inf) to integer"}))
            /\ UNCHANGED df
       ELSE /\ df' = YearToInt(df)
            /\ pc' = "filter"
            /\ UNCHANGED <<out, failure, uncaught>>
    /\ UNCHANGED <<script, file, csv, chart, axes, df_agg, files, cleanVars, hybridVars>>

\* line 36
BFilter ==
    /\ script = "B"
    /\ pc = "filter"
    /\ df' = FilterYears(df)
    /\ pc' = "sums"
    /\ UNCHANGED <<script, file, csv, chart, axes, df_agg, out, files, failure, uncaught,
                   cleanVars, hybridVars>>

\* lines 39-51
BSums ==
    /\ script = "B"
    /\ pc = "sums"
    /\ df' = WithGroupSums(df)
    /\ pc' = "aggregate"
    /\ UNCHANGED <<script, file, csv, chart, axes, df_agg, out, files, failure, uncaught,
                   cleanVars, hybridVars>>

\* lines 54-55
BAggregate ==
    /\ script = "B"
    /\ pc = "aggregate"
    /\ df_agg' = Aggregate(df)
    /\ pc' = "render"
    /\ UNCHANGED <<script, file, csv, df, chart, axes, out, files, failure, uncaught,
                   cleanVars, hybridVars>>

\* lines 60-97: the figure, one line per spending column, the formatting
BRender ==
    /\ script = "B"
    /\ pc = "render"
    /\ \/ /\ axes' = [axes EXCEPT ![1] =
                         [text |-> FALSE,
                          plots |-> <<"Funeral Group Spending", "Cemetery Group Spending">>,
                          data |-> df_agg, titled |-> TRUE]]
          /\ pc' = "save"
          /\ UNCHANGED <<out, failure, uncaught>>
       \/ /\ \E e \in DrawFailures : RaiseInScript(e)
          /\ UNCHANGED axes
    /\ UNCHANGED <<script, file, csv, df, chart, df_agg, files, cleanVars, hybridVars>>

\* line 100
BSave ==
    /\ script = "B"
    /\ pc = "save"
    /\ \/ /\ files' = Append(files, "spending_over_time_portrait.png")
          /\ pc' = "print"
          /\ UNCHANGED <<out, failure, uncaught>>
       \/ /\ \E e \in SaveFailures : RaiseInScript(e)
          /\ UNCHANGED files
    /\ UNCHANGED <<script, file, csv, df, chart, axes, df_agg, cleanVars, hybridVars>>

\* line 102
BPrint ==
    /\ script = "B"
    /\ pc = "print"
    /\ out' = Append(out, ChartSavedMsg)
    /\ pc' = "end"
    /\ UNCHANGED <<script, file, csv, df, chart, axes, df_agg, files, failure, uncaught,
                   cleanVars, hybridVars>>

----------------------------------------------------------------------------
(* Specifications *)

EmptyCsv == [columns |-> {}, rows |-> <<>>]

RunIdle ==
    /\ script = "none"
    /\ pc = "idle"
    /\ file = "none"
    /\ csv = EmptyCsv
    /\ df = Table({}, <<>>, <<>>)
    /\ chart = 0
    /\ axes = <<>>
    /\ df_agg = <<>>
    /\ out = <<>>
    /\ files = <<>>
    /\ failure = NoExc
    /\ uncaught = FALSE

InitClean ==
    /\ series \in InputColumns
    /\ cleaned = Pending
    /\ recleaned = Pending
    /\ HybridIdle
    /\ RunIdle

NextClean == Clean \/ CleanAgain

SpecClean == InitClean /\ [][NextClean]_vars

InitHybrid ==
    /\ hdf \in HTables
    /\ hpc = "call"
    /\ plot_df = <<>>
    /\ category_order = <<>>
    /\ hi = 0
    /\ ax = EmptyAx
    /\ CleanIdle
    /\ RunIdle

NextHybrid == HFilter \/ HViolin \/ HSwarm \/ HAnnotate \/ HLabels

SpecHybrid == InitHybrid /\ [][NextHybrid]_vars

\* a run of either script: what it finds on disk, nothing done yet
InitRun ==
    /\ \/ /\ script = "A"
          /\ \/ file = "ok" /\ csv \in CsvFiles
             \/ file \in {"missing", "unreadable"} /\ csv = EmptyCsv
          /\ axes = [n \in 1..NumCharts |-> NoAx]
       \/ /\ script = "B"
          /\ file = "embedded"
          /\ csv = data
          /\ axes = [n \in {1} |-> NoAx]
    /\ pc = "load"
    /\ df = Table({}, <<>>, <<>>)
    /\ chart = 0
    /\ df_agg = <<>>
    /\ out = <<>>
    /\ files = <<>>
    /\ failure = NoExc
    /\ uncaught = FALSE
    /\ CleanIdle
    /\ HybridIdle

Next ==
    \/ ALoad \/ AStrip \/ AClean \/ ARender \/ ASave \/ APrint
    \/ BLoad \/ BYear \/ BFilter \/ BSums \/ BAggregate \/ BRender \/ BSave \/ BPrint

Spec == InitRun /\ [][Next]_vars

----------------------------------------------------------------------------
(* Properties of clean_and_convert_to_numeric, under SpecClean *)

\* text cells that stand for no value, bare or wrapped in blanks and symbols
MissingTexts ==
    {<<>>, <<"N", "/", "A">>, <<"n", "a", "n">>, <<" ", "N", "/", "A", " ">>,
     <<"$", "n", "a", "n">>, <<"N", "/", "A", "%">>, <<" ", "$", " ">>, <<" ">>,
     <<"$">>, <<"$", "$">>, <<" ", "$">>, <<"$", " ">>,
     <<" ", " ">>}

\* text cells that are no number at all
UnparseableTexts ==
    MissingTexts \cup
    {<<"n", "/", "a">>, <<"a", "b", "c">>, <<"7", ".", "5", ".">>, <<"N", "a", "N">>,
     <<"7", " ", "7">>, <<"7", "$", " ", "7">>}

\* text cells that spell an infinity or lie beyond the float64 range
InfiniteTexts == {<<"i", "n", "f">>, <<"I", "n", "f", "i", "n", "i", "t", "y">>, <<"-", "i", "n", "f">>,
     <<"$", "i", "n", "f">>, <<"1", "e", "9", "9", "9">>}

IsMissingOrUnparseable(v) == v = NaN \/ (v.k = "str" /\ v.s \in UnparseableTexts)

SameLength == Len(cleaned.vals) = Len(series.vals)

AllMissingStaysMissing ==
    (\A n \in 1..Len(series.vals) : IsMissingOrUnparseable(series.vals[n]))
        => \A n \in 1..Len(cleaned.vals) : cleaned.vals[n] = NaN

C5_Idempotent ==
    /\ recleaned # Pending
          => ~recleaned.raised /\ recleaned.vals = cleaned.vals
    /\ (cleaned # Pending /\ series.dtype \in {"int64", "float64", "bool"})
          => ~cleaned.raised /\ cleaned.vals = series.vals /\ cleaned.dtype = series.dtype

\* a text column with a price and a missing entry has been cleaned twice
C5_Witness ==
    /\ recleaned # Pending
    /\ series = Column("object", <<Str(<<"$", "1", ",", "2", "3", "4", ".", "5", "0">>), Str(<<"N", "/", "A">>)>>)
    /\ recleaned.vals = <<[k |-> "fin", m |-> 12345, e |-> 1], NaN>>

\* C6: in a text column "$1,234.50", "12%" and " 7 " come back as 1234.50, 12.0
\* and 7.0, and "", "N/A" and "nan", bare or wrapped in blanks and in the
\* removed symbols, come back missing.
C6_SymbolsTrimmedThenParsed ==
    (cleaned # Pending /\ series.dtype = "object")
        => \A n \in 1..Len(series.vals) :
              LET v == series.vals[n]
                  c == cleaned.vals[n]
              IN  /\ v = Str(<<"$", "1", ",", "2", "3", "4", ".", "5", "0">>) => c = [k |-> "fin", m |-> 12345, e |-> 1]
                  /\ v = Str(<<"1", "2", "%">>) => c = [k |-> "fin", m |-> 12, e |-> 0]
                  /\ v = Str(<<" ", "7", " ">>) => c = [k |-> "fin", m |-> 7, e |-> 0]
                  /\ (v.k = "str" /\ v.s \in MissingTexts) => c = NaN

\* the three examples and a wrapped "N/A" have been cleaned
C6_Witness ==
    /\ cleaned # Pending
    /\ \E n \in 1..Len(series.vals) :
          series.vals[n] = Str(<<"$", "1", ",", "2", "3", "4", ".", "5", "0">>) /\ cleaned.vals[n].k = "fin"
    /\ \E n \in 1..Len(series.vals) :
          series.vals[n] = Str(<<" ", "N", "/", "A", " ">>) /\ cleaned.vals[n] = NaN

----------------------------------------------------------------------------
(* Properties of create_hybrid_plot, under SpecHybrid *)

SpecialLabel == <<"F", "P", "G", " ", "B", "e", "e", "r", "s", " ", "&", " ", "S", "t", "o", "r", "y">>

\* the non-missing values the input table holds for a label
ValuesOf(label) ==
    {hdf.rows[n][ValueCol] : n \in
        {j \in 1..Len(hdf.rows) : /\ hdf.rows[j][ValueCol] # NaN
                                  /\ hdf.rows[j][CategoryCol] = Str(label)}}

\* how many rows of the input table carry a value for a label
CountOf(label) ==
    Cardinality({j \in 1..Len(hdf.rows) : /\ hdf.rows[j][ValueCol] # NaN
                                          /\ hdf.rows[j][CategoryCol] = Str(label)})

AnnsAt(p) == SelectSeq(ax.anns, LAMBDA a : a.x = p - 1)
TicksAt(p) == SelectSeq(ax.ticks, LAMBDA k : k.x = p - 1)

OneDistinctValue(label) == Cardinality(ValuesOf(label)) = 1

\* the single black annotation of the special case, and nothing else
SingleAnnotation(p) ==
    LET label == category_order[p]
        a == AnnsAt(p)
    IN  /\ Len(a) = 1
        /\ TicksAt(p) = <<>>
        /\ ValuesOf(label) = {a[1].y}
        /\ a[1].color = "black"
        /\ a[1].y = Fin(1000, 0) => a[1].text = <<"$", "1", ",", "0", "0", "0">>
        /\ a[1].y = Fin(2501, 0) => a[1].text = <<"$", "2", ",", "5", "0", "1">>
        /\ a[1].y = Inf(1) => a[1].text = <<"$", "i", "n", "f">>

\* the median tick and the annotations Median, maximum, minimum, in this order
ThreeAnnotations(p) ==
    LET label == category_order[p]
        a == AnnsAt(p)
        k == TicksAt(p)
        v == ValuesOf(label)
    IN  /\ Len(k) = 1
        /\ Len(a) = 3
        /\ k[1].y = a[1].y
        /\ SubSeq(a[1].text, 1, 8) = <<"M", "e", "d", "i", "a", "n", ":", " ">>
        /\ a[1].color = "black" /\ a[2].color = "firebrick" /\ a[3].color = "darkgreen"
        /\ a[2].y \in v /\ \A y \in v : Le(y, a[2].y)
        /\ a[3].y \in v /\ \A y \in v : Le(a[3].y, y)
        /\ CountOf(label) % 2 = 1 => a[1].y \in v
        /\ v = {Fin(1000, 0)} => a[1].text = <<"M", "e", "d", "i", "a", "n", ":", " ">> \o <<"$", "1", ",", "0", "0", "0">>
        /\ (v = {Fin(1000, 0), Fin(2501, 0)} /\ CountOf(label) = 2)
              => a[1].y = [k |-> "fin", m |-> 17505, e |-> 1]
                 /\ a[1].text = <<"M", "e", "d", "i", "a", "n", ":", " ">> \o <<"$", "1", ",", "7", "5", "0">>
        /\ a[2].y = Fin(2501, 0) => a[2].text = <<"$", "2", ",", "5", "0", "1">>
        /\ a[3].y = Fin(1000, 0) => a[3].text = <<"$", "1", ",", "0", "0", "0">>

MedianBetween(p) ==
    LET a == AnnsAt(p)
    IN  Le(a[3].y, a[1].y) /\ Le(a[1].y, a[2].y)

Annotated(p) ==
    IF category_order[p] = SpecialLabel /\ OneDistinctValue(category_order[p])
    THEN SingleAnnotation(p)
    ELSE ThreeAnnotations(p)

RowOrders ==
    LET n == Len(hdf.rows)
    IN  {[j \in 1..n |-> hdf.rows[f[j]]] :
            f \in {g \in [1..n -> 1..n] : \A a, b \in 1..n : a # b => g[a] # g[b]}}

\* the labels of the rows that have both a value and a category
LabelsPlotted ==
    {hdf.rows[n][CategoryCol].s : n \in
        {j \in 1..Len(hdf.rows) : /\ hdf.rows[j][ValueCol] # NaN
                                  /\ hdf.rows[j][CategoryCol] # NaN}}

\* C10: the category order holds each plotted label once, in ascending order of
\* its text, whatever the order of the rows, and the violin, the points and the
\* annotations are laid out along it.
C10_CategoryOrderSorted ==
    (hpc \in {"violin", "swarm", "annotate", "returned"} /\ plot_df # <<>>)
        => /\ {category_order[p] : p \in 1..Len(category_order)} = LabelsPlotted
           /\ Len(category_order) = Cardinality(LabelsPlotted)
           /\ \A p \in 1..(Len(category_order) - 1) :
                 LessStr(category_order[p], category_order[p + 1])
           /\ Cardinality(LabelsPlotted) = 3
                 => category_order = <<SpecialLabel, Independent, <<"S", "C", "I">> >>
           /\ \A r \in RowOrders :
                 CategoryOrder(DropNa([hdf EXCEPT !.rows = r], {ValueCol, CategoryCol}),
                               CategoryCol) = category_order
           /\ ax.violin.drawn => ax.violin.order = category_order
           /\ ax.swarm.drawn => ax.swarm.order = category_order
           /\ \A n \in 1..Len(ax.anns) :
                 /\ ax.anns[n].x \in 0..(Len(category_order) - 1)
                 /\ ax.anns[n].y \in ValuesOf(category_order[ax.anns[n].x + 1])
                       \cup {NaN, [k |-> "fin", m |-> 17505, e |-> 1]}
           /\ hpc = "returned"
                 => \A p \in 1..Len(category_order) : AnnsAt(p) # <<>>

\* a chart of three categories whose rows came in descending order of label
C10_Witness ==
    /\ hpc = "returned"
    /\ Len(hdf.rows) = 3
    /\ hdf.rows[1][CategoryCol] = Str(<<"S", "C", "I">>)
    /\ hdf.rows[2][CategoryCol] = Str(Independent)
    /\ hdf.rows[3][CategoryCol] = Str(SpecialLabel)
    /\ category_order = <<SpecialLabel, Independent, <<"S", "C", "I">> >>
    /\ ax.violin.drawn /\ ax.swarm.drawn
    /\ Len(ax.anns) = 7

----------------------------------------------------------------------------
(* Properties of the two scripts, under Spec *)

Printed(msg) == \E n \in 1..Len(out) : out[n] = msg

AbsentColumns == {cols_to_clean[n] : n \in 1..Len(cols_to_clean)} \ csv.columns

\* C1: with one of the six columns absent from the file, the run prints the
\* warning, creates no cleaned column for it, shows the placeholder on every
\* chart that uses it, does not abort and writes all eight images.
C1_MissingColumnDegrades ==
    (/\ script = "A" /\ pc = "end" /\ file = "ok"
     /\ "Ownership" \in csv.columns
     /\ AbsentColumns # {}
     /\ failure.type \notin {"ValueError", "PermissionError", "FileNotFoundError"})
        => /\ failure = NoExc
           /\ Len(files) = 8
           /\ Printed(SavedMsg)
           /\ \A col \in AbsentColumns :
                 /\ Printed(Warning(col))
                 /\ CleanedName(col) \notin df.columns
                 /\ \A n \in 1..8 : CleanedName(col) \in ChartSubset(n) => axes[n].text

\* C2 as stated: in both scripts no failure escapes; a missing input file ends
\* the run with the 'not found' message and any other failure with the generic
\* message that carries its description.
C2_BothGuarded ==
    pc = "end"
        => /\ ~uncaught
           /\ failure # NoExc
                 => /\ out # <<>>
                    /\ out[Len(out)] = IF file = "missing" THEN NotFoundMsg
                                       ELSE UnexpectedMsg(failure)

\* C2 as amended: main() of the survey-chart script lets no failure escape; it
\* answers a FileNotFoundError, from the missing input file or from any later
\* step, with the 'not found' message and every other exception with the
\* generic message that carries its description.  The lobbying-chart script has
\* no guard: a failure escapes it and nothing is printed.
C2_GuardInMainOnly ==
    /\ failure = NoExc => ~uncaught
    /\ file = "missing" /\ pc = "end" => failure.type = "FileNotFoundError"
    /\ (pc = "end" /\ failure # NoExc /\ script = "A")
          => /\ ~uncaught
             /\ out # <<>>
             /\ out[Len(out)] =
                   IF failure.type = "FileNotFoundError"
                   THEN [line |-> "Error: 'oct10-fh-data.csv' not found. Please ensure it's in the same directory.",
                         arg |-> {}]
                   ELSE [line |-> "An unexpected error occurred: ", arg |-> failure.desc]
    /\ (pc = "end" /\ failure # NoExc /\ script = "B")
          => uncaught /\ out = <<>>

\* main() has answered a FileNotFoundError of a savefig call, the input file
\* being there, with the 'not found' message
C2_Witness ==
    /\ script = "A" /\ pc = "end" /\ file = "ok"
    /\ failure.type = "FileNotFoundError"
    /\ Len(files) >= 1
    /\ out[Len(out)] = NotFoundMsg

ImageOrder ==
    <<"geographic_distribution.png", "cremation_price_distribution.png",
      "immediate_burial_price_distribution.png", "basic_services_fee_hybrid_plot.png",
      "direct_cremation_hybrid_plot.png", "immediate_burial_hybrid_plot.png",
      "cremation_percentage_change.png", "fee_vs_cremation_price.png">>

\* C3: the images are written one at a time in the fixed order and none is ever
\* taken back; a failure while producing chart k ends the run with the images
\* of charts 1..k-1 written, nothing retried and no completion message; the
\* completion message is printed only after the eighth image.
C3_ImagesInOrder ==
    [][script = "A"
          => /\ \/ files' = files
                \/ Len(files) < 8 /\ files' = Append(files, ImageOrder[Len(files) + 1])
             /\ (failure' # NoExc /\ chart >= 1)
                   => /\ failure = NoExc
                      /\ pc' = "end"
                      /\ files' = files
                      /\ Len(files) = chart - 1
                      /\ ~Printed(SavedMsg)'
             /\ Printed(SavedMsg)' => Len(files') = 8 /\ failure' = NoExc
             /\ pc # "end"]_vars

\* the run has ended on a failure of the fourth chart, three images written
C3_Witness ==
    /\ script = "A" /\ pc = "end"
    /\ failure # NoExc
    /\ chart = 4
    /\ files = <<"geographic_distribution.png", "cremation_price_distribution.png",
                 "immediate_burial_price_distribution.png">>
    /\ ~Printed(SavedMsg)

ExpectedAgg ==
    << ("Year" :> Fin(2017, 0)) @@ ("Funeral Group Spending" :> Fin(14000, 0))
        @@ ("Cemetery Group Spending" :> Fin(12000, 0)),
       ("Year" :> Fin(2018, 0)) @@ ("Funeral Group Spending" :> Fin(10000, 0))
        @@ ("Cemetery Group Spending" :> Fin(12000, 0)),
       ("Year" :> Fin(2019, 0)) @@ ("Funeral Group Spending" :> Fin(14000, 0))
        @@ ("Cemetery Group Spending" :> Fin(12000, 0)),
       ("Year" :> Fin(2020, 0)) @@ ("Funeral Group Spending" :> Fin(14428, 0))
        @@ ("Cemetery Group Spending" :> Fin(12000, 0)),
       ("Year" :> Fin(2021, 0)) @@ ("Funeral Group Spending" :> Fin(28678, 0))
        @@ ("Cemetery Group Spending" :> Fin(12000, 0)),
       ("Year" :> Fin(2022, 0)) @@ ("Funeral Group Spending" :> Fin(28000, 0))
        @@ ("Cemetery Group Spending" :> Fin(66750, 0)),
       ("Year" :> Fin(2023, 0)) @@ ("Funeral Group Spending" :> Fin(58000, 0))
        @@ ("Cemetery Group Spending" :> Fin(76910, 0)),
       ("Year" :> Fin(2024, 0)) @@ ("Funeral Group Spending" :> Fin(92166, 0))
        @@ ("Cemetery Group Spending" :> Fin(78000, 0)) >>

NoRowComplete(n) ==
    \A j \in 1..Len(df.rows) : \E c \in ChartSubset(n) : df.rows[j][c] = NaN

NothingDrawn(a) ==
    /\ ~a.titled
    /\ IF "plots" \in DOMAIN a
       THEN a.plots = <<>> /\ a.data = <<>>
       ELSE ~a.violin.drawn /\ ~a.swarm.drawn /\ a.ticks = <<>> /\ a.anns = <<>>

\* C8: a chart whose required columns are there but hold no complete row shows
\* the placeholder text, draws nothing and raises nothing; its image is then
\* written (unless the file system refuses the write) and the run goes on to
\* the next chart.
C8_EmptyChartPlaceholder ==
    [][/\ (/\ script = "A" /\ pc = "render"
           /\ ChartSubset(chart) \subseteq df.columns
           /\ NoRowComplete(chart))
          => /\ pc' = "save"
             /\ failure' = NoExc
             /\ out' = out
             /\ axes'[chart].text
             /\ NothingDrawn(axes'[chart])
       /\ (script = "A" /\ pc = "save" /\ axes[chart].text)
          => \/ /\ files' = Append(files, ImageOrder[chart])
                /\ failure' = NoExc
                /\ IF chart = 8 THEN pc' = "print"
                   ELSE pc' = "render" /\ chart' = chart + 1
             \/ failure' \in SaveFailures /\ files' = files]_vars

\* a run that wrote all eight images, the first and the fourth as placeholders,
\* the second with data
C8_Witness ==
    /\ script = "A" /\ pc = "end" /\ failure = NoExc
    /\ Len(files) = 8
    /\ Len(df.rows) = 1
    /\ axes[1].text /\ NothingDrawn(axes[1])
    /\ axes[4].text /\ NothingDrawn(axes[4])
    /\ ~axes[2].text

====
